---- MODULE Spec2Model ----
(***************************************************************************)
(* AI-Study-buddy: the Gemini completion client with its two-key fallback  *)
(* (lib/gemini-client), the POST /api/chat route handler, the credential   *)
(* routes (signup, login, logout) with the JWT verifier and requireAuth,   *)
(* the courses and chat-history routes, and the client hooks               *)
(* useLearningStats and useChatHistory with their localStorage partitions. *)
(***************************************************************************)
EXTENDS Integers, Sequences, FiniteSets, TLC

\* ---------------------------------------------------------------- bounds
MaxRequests == 2
\* signup requests, each with its own handler, that may run concurrently
MaxSignups == 2
\* the clock runs up to day MaxNow
MaxNow == 31
\* logins happen on days 0..MaxLoginDay
MaxLoginDay == 1
\* courses created
MaxCourses == 1
\* calls of the learning-stats hook, and days, in the general run
MaxCalls == 5
MaxDay == 4
\* distinct topics, and addTopic calls, in the run beyond the topic cap
MaxTopics == 22
MaxAdds == 23
\* recordAnswer calls, wrong answers among them, and days, in the run beyond
\* the daily-progress cap
MaxAnswers == 9
MaxWrong == 1
MaxProgressDay == 8
\* calls of the chat-history hook, and milliseconds, in the general run
MaxHistoryCalls == 4
MaxMs == 2
\* createSession calls, one a millisecond, past the cap of the list
MaxCreates == 52
\* sessions that get a message while New Chat is pressed again and again
MaxWithMessages == 1
\* calls of each hook while the stored identity changes
MaxPartitionCalls == 2

\* ------------------------------------------------------- input alphabets
\* message field of the POST /api/chat body ("" is a missing message)
Messages == {"", "hi"}
\* userId field of the body: "" missing, "u1" a valid ObjectId string,
\* "zz" a string new ObjectId() rejects
UserIds == {"", "u1", "zz"}
ValidObjectIds == {"u1"}
\* messages the SDK's errors can carry when a call fails
ApiErrors == {"quota exceeded", "invalid key"}
\* how the chat-history write can end
DbOutcomes == {"ok", "connect failed", "insert failed"}

VARIABLES
    apiKey1, apiKey2,     \* process.env.GEMINI_API_KEY_1 / _2 are set
    client1, client2,     \* module-level clients of gemini-client
    pc,                   \* position of the POST /api/chat handler
    req,                  \* the request being handled
    attempts,             \* completion attempts of the current request, in order
    lastError,            \* sendMessageWithFallback's lastError
    responseText,         \* POST's responseText
    chatHistory,          \* the chatHistory collection
    chatResp,             \* the HTTP response of the last request
    served,               \* number of requests received so far
    envJwtSecret,         \* process.env.JWT_SECRET ("" when unset)
    users,                \* the users collection, in insertion order
    userStats,            \* the userStats collection (userId of each record)
    emailIndex,           \* the unique index on users.email exists
    signups,              \* the signup requests, by handler
    lastLogin,            \* the last login request and its response
    now,                  \* the clock jwt.sign and jwt.verify read, in days
    authToken,            \* localStorage "auth_token" of the browser
    storedUser,           \* id of localStorage "user" of the browser, 0 is none
    logoutResp,           \* the last response of POST /api/auth/logout
    authReq,              \* the last requireAuth call and its result
    courses,              \* the courses collection (ids)
    lastOp,               \* the last request to a courses or chat-history route
    stats,                \* useLearningStats' stats
    today,                \* the calendar day (UTC) of the browser's clock
    statsStorage,         \* localStorage entries "learning_stats_<user>"
    lastStat,             \* the last call of the hook, and the number of calls
    sessions,             \* useChatHistory's sessions, newest first
    currentSessionId,     \* useChatHistory's currentSessionId, 0 is null
    historyStorage,       \* localStorage entries "chat_history_<user>"
    clockMs,              \* Date.now() of the browser
    lastCall              \* the last call of useChatHistory, and the number of calls

chatVars == <<apiKey1, apiKey2, client1, client2, pc, req, attempts, lastError,
              responseText, chatHistory, chatResp, served>>

authVars == <<envJwtSecret, users, userStats, emailIndex, signups, lastLogin, now>>

gateVars == <<authToken, storedUser, logoutResp, authReq, courses, lastOp>>

statsVars == <<stats, today, statsStorage, lastStat>>

historyVars == <<sessions, currentSessionId, historyStorage, clockMs, lastCall>>

\* ------------------------------------------------------------- values
NoText == [cred |-> 0, attempt |-> 0, prompt |-> ""]
\* the text the API returns to the call made as attempt n with credential c
TextOf(c, n, prompt) == [cred |-> c, attempt |-> n, prompt |-> prompt]

NoError == ""
ConfigError == "No Gemini API keys configured"

NoReq == [malformed |-> FALSE, message |-> "", userId |-> "", id |-> 0]
NoResp == [status |-> 0, response |-> NoText, error |-> <<>>]

Ok(text) == [status |-> 200, response |-> text, error |-> <<>>]
Err(code, msg) == [status |-> code, response |-> NoText, error |-> msg]

\* `Failed with both Gemini API keys: ${lastError?.message}`
CombinedMessage(e) == <<"Failed with both Gemini API keys", e>>

\* ------------------------------------------------------- gemini-client
\* getGeminiClient without the `useSecondary && client2` branch
GetGeminiClient_IgnoresSecondary(useSecondary, c1, c2) ==
    IF c1 THEN 1
    ELSE IF c2 THEN 2
    ELSE 0

\* getGeminiClient's choice once the clients are initialised: 0 is null
GetGeminiClient(useSecondary, c1, c2) ==
    IF useSecondary /\ c2 THEN 2
    ELSE IF c1 THEN 1
    ELSE IF c2 THEN 2
    ELSE 0

\* initializeClients runs when both clients are null; it throws with no key
NeedsInit == ~client1 /\ ~client2
InitThrows == NeedsInit /\ ~apiKey1 /\ ~apiKey2
Client1AfterInit == IF NeedsInit THEN apiKey1 ELSE client1
Client2AfterInit == IF NeedsInit THEN apiKey2 ELSE client2

\* getGeminiModel(useSecondary): the credential of the model it returns
GetGeminiModel(useSecondary) ==
    GetGeminiClient(useSecondary, Client1AfterInit, Client2AfterInit)

Attempt(n, c, outcome, err) ==
    [n |-> n, cred |-> c, outcome |-> outcome, err |-> err]

\* ------------------------------------------------------ POST /api/chat
ChatReceive(malformed, m, u) ==
    /\ pc \in {"idle", "done"}
    /\ served < MaxRequests
    /\ served' = served + 1
    /\ req' = [malformed |-> malformed, message |-> m, userId |-> u,
               id |-> served + 1]
    /\ attempts' = <<>>
    /\ lastError' = NoError
    /\ responseText' = NoText
    /\ IF malformed
       THEN /\ chatResp' = Err(500, <<"Unexpected end of JSON input">>)
            /\ pc' = "done"
       ELSE IF m = ""
       THEN /\ chatResp' = Err(400, <<"Message is required">>)
            /\ pc' = "done"
       ELSE /\ chatResp' = NoResp
            /\ pc' = "primary"
    /\ UNCHANGED <<authVars, gateVars, statsVars, historyVars, apiKey1, apiKey2, client1, client2, chatHistory>>

\* first try block up to the await of chat.sendMessage
PrimaryIssue ==
    /\ pc = "primary"
    /\ client1' = Client1AfterInit
    /\ client2' = Client2AfterInit
    /\ IF InitThrows
       THEN /\ attempts' = Append(attempts, Attempt(1, 0, "threw", ConfigError))
            /\ lastError' = ConfigError
            /\ pc' = "secondary"
       ELSE /\ attempts' = Append(attempts,
                                  Attempt(1, GetGeminiModel(FALSE), "pending", NoError))
            /\ lastError' = lastError
            /\ pc' = "call1"
    /\ UNCHANGED <<authVars, gateVars, statsVars, historyVars, apiKey1, apiKey2, req, responseText, chatHistory, chatResp, served>>

\* the first try block without its `return`: the text is kept and the
\* handler goes on to the second try block
PrimaryResolve_FallsThrough(ok, e) ==
    /\ pc = "call1"
    /\ LET a == attempts[Len(attempts)] IN
       IF ok
       THEN /\ attempts' = [attempts EXCEPT ![Len(attempts)].outcome = "ok"]
            /\ responseText' = TextOf(a.cred, a.n, req.message)
            /\ lastError' = lastError
            /\ pc' = "secondary"
       ELSE /\ attempts' = [attempts EXCEPT ![Len(attempts)].outcome = "failed",
                                            ![Len(attempts)].err = e]
            /\ responseText' = responseText
            /\ lastError' = e
            /\ pc' = "secondary"
    /\ UNCHANGED <<authVars, gateVars, statsVars, historyVars, apiKey1, apiKey2, client1, client2, req, chatHistory, chatResp, served>>

\* the awaited call settles: text, or an error caught by the first catch
PrimaryResolve(ok, e) ==
    /\ pc = "call1"
    /\ LET a == attempts[Len(attempts)] IN
       IF ok
       THEN /\ attempts' = [attempts EXCEPT ![Len(attempts)].outcome = "ok"]
            /\ responseText' = TextOf(a.cred, a.n, req.message)
            /\ lastError' = lastError
            /\ pc' = "persist"
       ELSE /\ attempts' = [attempts EXCEPT ![Len(attempts)].outcome = "failed",
                                            ![Len(attempts)].err = e]
            /\ responseText' = responseText
            /\ lastError' = e
            /\ pc' = "secondary"
    /\ UNCHANGED <<authVars, gateVars, statsVars, historyVars, apiKey1, apiKey2, client1, client2, req, chatHistory, chatResp, served>>

\* second try block up to the await of chat.sendMessage
SecondaryIssue ==
    /\ pc = "secondary"
    /\ client1' = Client1AfterInit
    /\ client2' = Client2AfterInit
    /\ IF InitThrows
       THEN /\ attempts' = Append(attempts, Attempt(2, 0, "threw", ConfigError))
            /\ lastError' = ConfigError
            /\ chatResp' = Err(500, CombinedMessage(ConfigError))
            /\ pc' = "done"
       ELSE /\ attempts' = Append(attempts,
                                  Attempt(2, GetGeminiModel(TRUE), "pending", NoError))
            /\ lastError' = lastError
            /\ chatResp' = chatResp
            /\ pc' = "call2"
    /\ UNCHANGED <<authVars, gateVars, statsVars, historyVars, apiKey1, apiKey2, req, responseText, chatHistory, served>>

\* the second call settles: text, or the combined error, which POST's
\* outer catch turns into a 500
SecondaryResolve(ok, e) ==
    /\ pc = "call2"
    /\ LET a == attempts[Len(attempts)] IN
       IF ok
       THEN /\ attempts' = [attempts EXCEPT ![Len(attempts)].outcome = "ok"]
            /\ responseText' = TextOf(a.cred, a.n, req.message)
            /\ lastError' = lastError
            /\ chatResp' = chatResp
            /\ pc' = "persist"
       ELSE /\ attempts' = [attempts EXCEPT ![Len(attempts)].outcome = "failed",
                                            ![Len(attempts)].err = e]
            /\ responseText' = responseText
            /\ lastError' = e
            /\ chatResp' = Err(500, CombinedMessage(e))
            /\ pc' = "done"
    /\ UNCHANGED <<authVars, gateVars, statsVars, historyVars, apiKey1, apiKey2, client1, client2, req, chatHistory, served>>

ChatRecord(r, text) ==
    [reqId |-> r.id, userId |-> r.userId, userMessage |-> r.message,
     assistantResponse |-> text]

\* the inner try of POST: connectDB, new ObjectId(userId), insertOne
SaveSucceeds(u, db) == u \in ValidObjectIds /\ db = "ok"

\* POST without the inner try/catch: a failed save reaches the outer catch
ChatPersistAndRespond_Rethrows(db) ==
    /\ pc = "persist"
    /\ IF req.userId # "" /\ SaveSucceeds(req.userId, db)
       THEN chatHistory' = Append(chatHistory, ChatRecord(req, responseText))
       ELSE chatHistory' = chatHistory
    /\ chatResp' = IF req.userId # "" /\ ~SaveSucceeds(req.userId, db)
                   THEN Err(500, <<db>>)
                   ELSE Ok(responseText)
    /\ pc' = "done"
    /\ UNCHANGED <<authVars, gateVars, statsVars, historyVars, apiKey1, apiKey2, client1, client2, req, attempts, lastError,
                   responseText, served>>

\* POST without the `if (userId)` guard around the save
ChatPersistAndRespond_AlwaysSaves(db) ==
    /\ pc = "persist"
    /\ IF db = "ok"
       THEN chatHistory' = Append(chatHistory, ChatRecord(req, responseText))
       ELSE chatHistory' = chatHistory
    /\ chatResp' = Ok(responseText)
    /\ pc' = "done"
    /\ UNCHANGED <<authVars, gateVars, statsVars, historyVars, apiKey1, apiKey2, client1, client2, req, attempts, lastError,
                   responseText, served>>

\* the save of the chat-history record and the response
ChatPersistAndRespond(db) ==
    /\ pc = "persist"
    /\ IF req.userId # "" /\ SaveSucceeds(req.userId, db)
       THEN chatHistory' = Append(chatHistory, ChatRecord(req, responseText))
       ELSE chatHistory' = chatHistory
    /\ chatResp' = Ok(responseText)
    /\ pc' = "done"
    /\ UNCHANGED <<authVars, gateVars, statsVars, historyVars, apiKey1, apiKey2, client1, client2, req, attempts, lastError,
                   responseText, served>>

ChatIdle(k1, k2) ==
    /\ apiKey1 = k1
    /\ apiKey2 = k2
    /\ client1 = FALSE
    /\ client2 = FALSE
    /\ pc = "idle"
    /\ req = NoReq
    /\ attempts = <<>>
    /\ lastError = NoError
    /\ responseText = NoText
    /\ chatHistory = <<>>
    /\ chatResp = NoResp
    /\ served = 0

ChatInit == \E k1 \in BOOLEAN, k2 \in BOOLEAN : ChatIdle(k1, k2)

ChatNext ==
    \/ \E malformed \in BOOLEAN, m \in Messages, u \in UserIds :
          ChatReceive(malformed, m, u)
    \/ PrimaryIssue
    \/ \E ok \in BOOLEAN, e \in ApiErrors : PrimaryResolve(ok, e)
    \/ SecondaryIssue
    \/ \E ok \in BOOLEAN, e \in ApiErrors : SecondaryResolve(ok, e)
    \/ \E db \in DbOutcomes : ChatPersistAndRespond(db)


\* ============================================================ credentials

Names == {"Ana"}
Emails == {"ana@x.com", "bob@x.com"}
Passwords == {"", "secret1", "wrong"}
EnvSecrets == {"", "s3cret"}
Handlers == 1..MaxSignups

\* expiresIn: "30d"
ExpiresInDays == 30
\* bcrypt.hash(password, 10)
SaltRounds == 10

NoUser == [id |-> 0, name |-> "", email |-> ""]
NoToken == [payload |-> NoUser, sig |-> "", iat |-> 0, exp |-> 0]
AuthResp(status, error, user, token) ==
    [status |-> status, error |-> error, user |-> user, token |-> token]
NoAuthResp == AuthResp(0, "", NoUser, NoToken)

\* const JWT_SECRET = process.env.JWT_SECRET || "your-secret-key-change-in-production"
LoginJwtSecret == IF envJwtSecret = "" THEN "your-secret-key-change-in-production"
                  ELSE envJwtSecret
VerifyJwtSecret == IF envJwtSecret = "" THEN "your-secret-key-change-in-production"
                   ELSE envJwtSecret

\* jwt.sign(payload, secret, {expiresIn: "30d"}) at time t
JwtSign(payload, secret, t) ==
    [payload |-> payload, sig |-> secret, iat |-> t, exp |-> t + ExpiresInDays]
\* jwt.verify(token, secret) at time t: the signature and the expiry
\* jwt.verify that still accepts a token at its expiry time
JwtValid_Inclusive(token, secret, t) == token.sig = secret /\ t <= token.exp

JwtValid(token, secret, t) == token.sig = secret /\ t < token.exp

\* verifyToken: the decoded identity, NoUser for null
VerifyToken(token, t) ==
    IF JwtValid(token, VerifyJwtSecret, t) THEN token.payload ELSE NoUser

\* bcryptjs hash at signup, bcrypt compare at login
BcryptHash(password, rounds) == [rounds |-> rounds, digest |-> <<"bcrypt", password>>]
BcryptCompare(password, hash) == hash.digest = <<"bcrypt", password>>

\* collection("users").findOne({ email }): the first match in natural order
Matches(email) == {i \in 1..Len(users) : users[i].email = email}
FindOne(email) == users[CHOOSE i \in Matches(email) : \A j \in Matches(email) : i <= j]

UserData(u) == [id |-> u.id, name |-> u.name, email |-> u.email]

\* --------------------------------------------------- POST /api/auth/login
LoginMissingResponse == AuthResp(400, "Email and password required", NoUser, NoToken)
\* a not-found branch that says so
LoginNotFoundResponse_Leaky == AuthResp(404, "User not found", NoUser, NoToken)
LoginNotFoundResponse == AuthResp(401, "Invalid email or password", NoUser, NoToken)
LoginMismatchResponse == AuthResp(401, "Invalid email or password", NoUser, NoToken)
LoginOkResponse(u, t) ==
    AuthResp(200, "", UserData(u), JwtSign(UserData(u), LoginJwtSecret, t))

\* the branch the handler takes
LoginPath(email, password) ==
    IF email = "" \/ password = "" THEN "missing"
    ELSE IF Matches(email) = {} THEN "notfound"
    ELSE IF ~BcryptCompare(password, FindOne(email).password) THEN "mismatch"
    ELSE "ok"

LoginResponse(email, password, t) ==
    CASE LoginPath(email, password) = "missing" -> LoginMissingResponse
      [] LoginPath(email, password) = "notfound" -> LoginNotFoundResponse
      [] LoginPath(email, password) = "mismatch" -> LoginMismatchResponse
      [] OTHER -> LoginOkResponse(FindOne(email), t)

Login(email, password) ==
    /\ lastLogin' = [email |-> email, at |-> now,
                     path |-> LoginPath(email, password),
                     resp |-> LoginResponse(email, password, now)]
    /\ UNCHANGED <<chatVars, gateVars, statsVars, historyVars, envJwtSecret, users, userStats, emailIndex, signups, now>>

\* -------------------------------------------------- POST /api/auth/signup
IdleSignup == [pc |-> "idle", name |-> "", email |-> "", password |-> "",
               insertedId |-> 0, resp |-> NoAuthResp]

SignupOkResponse(id, name, email) ==
    AuthResp(200, "", [id |-> id, name |-> name, email |-> email], NoToken)

\* the body is parsed and validated
SignupReceive(h, name, email, password) ==
    /\ signups[h].pc = "idle"
    /\ \A g \in Handlers : g < h => signups[g].pc # "idle"
    /\ signups' = [signups EXCEPT ![h] =
          IF name = "" \/ email = "" \/ password = ""
          THEN [IdleSignup EXCEPT !.pc = "done", !.name = name, !.email = email,
                                  !.password = password,
                                  !.resp = AuthResp(400, "Missing required fields",
                                                    NoUser, NoToken)]
          ELSE [IdleSignup EXCEPT !.pc = "find", !.name = name, !.email = email,
                                  !.password = password]]
    /\ UNCHANGED <<chatVars, gateVars, statsVars, historyVars, envJwtSecret, users, userStats, emailIndex, lastLogin, now>>

\* the handler without the `if (existingUser)` return
SignupFind_NoCheck(h) ==
    /\ signups[h].pc = "find"
    /\ signups' = [signups EXCEPT ![h].pc = "insertUser"]
    /\ UNCHANGED <<chatVars, gateVars, statsVars, historyVars, envJwtSecret, users, userStats, emailIndex, lastLogin, now>>

\* const existingUser = await findOne({ email })
SignupFind(h) ==
    /\ signups[h].pc = "find"
    /\ signups' = [signups EXCEPT ![h] =
          IF Matches(signups[h].email) # {}
          THEN [@ EXCEPT !.pc = "done",
                         !.resp = AuthResp(400, "User already exists", NoUser, NoToken)]
          ELSE [@ EXCEPT !.pc = "insertUser"]]
    /\ UNCHANGED <<chatVars, gateVars, statsVars, historyVars, envJwtSecret, users, userStats, emailIndex, lastLogin, now>>

\* the insert is refused by the unique index, when the index exists
DuplicateKey(email) == emailIndex /\ Matches(email) # {}

\* bcrypt.hash and collection("users").insertOne
SignupInsertUser(h, dbOk) ==
    /\ signups[h].pc = "insertUser"
    /\ LET r == signups[h]
           id == Len(users) + 1 IN
       IF dbOk /\ ~DuplicateKey(r.email)
       THEN /\ users' = Append(users,
                   [id |-> id, name |-> r.name, email |-> r.email,
                    password |-> BcryptHash(r.password, SaltRounds), role |-> "user"])
            /\ signups' = [signups EXCEPT ![h].pc = "insertStats",
                                          ![h].insertedId = id]
       ELSE /\ users' = users
            /\ signups' = [signups EXCEPT ![h].pc = "done",
                  ![h].resp = AuthResp(500, IF dbOk THEN "E11000 duplicate key"
                                            ELSE "insert failed", NoUser, NoToken)]
    /\ UNCHANGED <<chatVars, gateVars, statsVars, historyVars, envJwtSecret, userStats, emailIndex, lastLogin, now>>

\* collection("userStats").insertOne and the response
SignupInsertStats(h, dbOk) ==
    /\ signups[h].pc = "insertStats"
    /\ LET r == signups[h] IN
       IF dbOk
       THEN /\ userStats' = Append(userStats, r.insertedId)
            /\ signups' = [signups EXCEPT ![h].pc = "done",
                  ![h].resp = SignupOkResponse(r.insertedId, r.name, r.email)]
       ELSE /\ userStats' = userStats
            /\ signups' = [signups EXCEPT ![h].pc = "done",
                  ![h].resp = AuthResp(500, "insert failed", NoUser, NoToken)]
    /\ UNCHANGED <<chatVars, gateVars, statsVars, historyVars, envJwtSecret, users, emailIndex, lastLogin, now>>

\* ------------------------------------------------------ POST /api/db/init
\* createIndex({ email: 1 }, { unique: true }) fails on existing duplicates
DbInit ==
    /\ ~emailIndex
    /\ emailIndex' = (\A i, j \in 1..Len(users) :
                         users[i].email = users[j].email => i = j)
    /\ UNCHANGED <<chatVars, gateVars, statsVars, historyVars, envJwtSecret, users, userStats, signups, lastLogin, now>>

NoLogin == [email |-> "", at |-> 0, path |-> "", resp |-> NoAuthResp]

AuthState(secret) ==
    /\ envJwtSecret = secret
    /\ users = <<>>
    /\ userStats = <<>>
    /\ emailIndex = FALSE
    /\ signups = [h \in Handlers |-> IdleSignup]
    /\ lastLogin = NoLogin
    /\ now = 0

AuthIdle == AuthState("")
AuthInit == \E secret \in EnvSecrets : AuthState(secret)

AuthNext ==
    \/ \E h \in Handlers, name \in Names, email \in Emails, password \in Passwords :
          SignupReceive(h, name, email, password)
    \/ \E h \in Handlers : SignupFind(h)
    \/ \E h \in Handlers, dbOk \in BOOLEAN : SignupInsertUser(h, dbOk)
    \/ \E h \in Handlers, dbOk \in BOOLEAN : SignupInsertStats(h, dbOk)
    \/ \E email \in Emails, password \in Passwords :
          Login(email, password)
    \/ DbInit

\* ======================================================== useLearningStats
\* calendar days (UTC) are numbered from 1; NoDate is lastActiveDate ""
NoDate == -1
\* slice(-20) of topicsLearned
KeepTopics == 20
\* slice(-7) of dailyProgress
KeepDays == 7
\* topics are numbered: topic n is the n-th distinct string
Topics == 1..MaxTopics

\* getDefaultStats
DefaultStats ==
    [questionsAsked |-> 0, topicsLearned |-> <<>>, totalCorrect |-> 0,
     totalAttempts |-> 0, streakDays |-> 0, lastActiveDate |-> NoDate,
     dailyProgress |-> <<>>]

\* no entry in localStorage
NoStored == [DefaultStats EXCEPT !.questionsAsked = -1]

\* getUserId / getStorageKey: the partition of the stored user, 0 is "guest"
StorageKeys == 0..3
GetStorageKey == storedUser

\* Array.prototype.slice(-n)
SliceLast(seq, n) == IF Len(seq) <= n THEN seq ELSE SubSeq(seq, Len(seq) - n + 1, Len(seq))
\* Array.prototype.includes
Includes(seq, x) == \E i \in 1..Len(seq) : seq[i] = x
\* dailyProgress.findIndex((d) => d.date === date), 1-based; 0 is not found
FindIndex(dp, date) ==
    IF \E i \in 1..Len(dp) : dp[i].date = date
    THEN CHOOSE i \in 1..Len(dp) : dp[i].date = date /\ \A j \in 1..(i - 1) : dp[j].date # date
    ELSE 0
\* Math.round((correct / attempts) * 100)
RoundPercent(nCorrect, nAttempts) == (200 * nCorrect + nAttempts) \div (2 * nAttempts)
\* toLocaleDateString("en-US", {weekday: "short"}), as a number
DayName(date) == date % 7

\* updateStreak that does not test for a call on the same day
UpdateStreak_EveryCall(currentStats, T) ==
    IF currentStats.lastActiveDate \in {T, T - 1}
    THEN [currentStats EXCEPT !.streakDays = @ + 1, !.lastActiveDate = T]
    ELSE [currentStats EXCEPT !.streakDays = 1, !.lastActiveDate = T]

\* updateStreak on day T
UpdateStreak(currentStats, T) ==
    IF currentStats.lastActiveDate = T THEN currentStats
    ELSE IF currentStats.lastActiveDate = T - 1
    THEN [currentStats EXCEPT !.streakDays = @ + 1, !.lastActiveDate = T]
    ELSE [currentStats EXCEPT !.streakDays = 1, !.lastActiveDate = T]

StatCall(op, topic, isCorrect) ==
    [op |-> op, topic |-> topic, isCorrect |-> isCorrect, day |-> today,
     n |-> lastStat.n + 1]
NoStatCall == [op |-> "", topic |-> 0, isCorrect |-> FALSE, day |-> 0, n |-> 0]

\* the new stats of a call, saved by the effect on [stats, isLoaded]
SetStats(next, call) ==
    /\ stats' = next
    /\ statsStorage' = [statsStorage EXCEPT ![GetStorageKey] = next]
    /\ lastStat' = call
    /\ UNCHANGED <<chatVars, authVars, gateVars, historyVars, today>>

IncrementQuestions ==
    SetStats([UpdateStreak(stats, today) EXCEPT !.questionsAsked = @ + 1],
             StatCall("incrementQuestions", 0, FALSE))

\* addTopic that appends without the includes test
AddTopic_NoIncludes(topic) ==
    SetStats([UpdateStreak(stats, today) EXCEPT
                 !.topicsLearned = SliceLast(Append(@, topic), KeepTopics)],
             StatCall("addTopic", topic, FALSE))

\* a present topic returns prev itself: no new state, so the save effect
\* does not run
AddTopic(topic) ==
    IF Includes(stats.topicsLearned, topic)
    THEN /\ lastStat' = StatCall("addTopic", topic, FALSE)
         /\ UNCHANGED <<chatVars, authVars, gateVars, historyVars, stats, today, statsStorage>>
    ELSE SetStats([UpdateStreak(stats, today) EXCEPT
                      !.topicsLearned = SliceLast(Append(@, topic), KeepTopics)],
                  StatCall("addTopic", topic, FALSE))

\* the accuracy recordAnswer stores for today
TodayAccuracy(s, isCorrect) ==
    RoundPercent(s.totalCorrect + (IF isCorrect THEN 1 ELSE 0), s.totalAttempts + 1)
TodayEntry(s, isCorrect) ==
    [day |-> DayName(today), accuracy |-> TodayAccuracy(s, isCorrect), date |-> today]

\* recordAnswer's dailyProgress when it pushes without the findIndex test
UpsertToday_AlwaysPush(dp, entry) == SliceLast(Append(dp, entry), KeepDays)

\* recordAnswer's dailyProgress: replace today's entry, or push and slice(-7)
UpsertToday(dp, entry) ==
    IF FindIndex(dp, entry.date) > 0
    THEN [dp EXCEPT ![FindIndex(dp, entry.date)] = entry]
    ELSE SliceLast(Append(dp, entry), KeepDays)

\* recordAnswer that counts every answer as correct
RecordAnswer_AllCorrect(isCorrect) ==
    SetStats([UpdateStreak(stats, today) EXCEPT
                 !.totalCorrect = @ + 1,
                 !.totalAttempts = @ + 1,
                 !.dailyProgress = UpsertToday(@, TodayEntry(stats, TRUE))],
             StatCall("recordAnswer", 0, isCorrect))

RecordAnswer(isCorrect) ==
    SetStats([UpdateStreak(stats, today) EXCEPT
                 !.totalCorrect = @ + (IF isCorrect THEN 1 ELSE 0),
                 !.totalAttempts = @ + 1,
                 !.dailyProgress = UpsertToday(@, TodayEntry(stats, isCorrect))],
             StatCall("recordAnswer", 0, isCorrect))

\* the hook's avgAccuracy
AvgAccuracy(s) ==
    IF s.totalAttempts > 0 THEN RoundPercent(s.totalCorrect, s.totalAttempts) ELSE 0

\* resetStats; the save effect then stores the default stats again
ResetStats == SetStats(DefaultStats, StatCall("resetStats", 0, FALSE))

\* the mount effect, when the page is loaded again
LoadStats ==
    /\ stats' = IF statsStorage[GetStorageKey] # NoStored
                THEN statsStorage[GetStorageKey] ELSE DefaultStats
    /\ statsStorage' = [statsStorage EXCEPT ![GetStorageKey] = stats']
    /\ UNCHANGED <<chatVars, authVars, gateVars, historyVars, today, lastStat>>

\* d days pass on the browser's clock
NextDay(d) ==
    /\ today' = today + d
    /\ UNCHANGED <<chatVars, authVars, gateVars, historyVars, stats, statsStorage, lastStat>>

StatsIdle ==
    /\ stats = DefaultStats
    /\ today = 1
    /\ statsStorage = [k \in StorageKeys |-> NoStored]
    /\ lastStat = NoStatCall

\* all operations of the hook, a few calls over a few days
NextStats ==
    \/ lastStat.n < MaxCalls /\ IncrementQuestions
    \/ lastStat.n < MaxCalls /\ \E topic \in 1..2 : AddTopic(topic)
    \/ lastStat.n < MaxCalls /\ \E isCorrect \in BOOLEAN : RecordAnswer(isCorrect)
    \/ lastStat.n < MaxCalls /\ ResetStats
    \/ LoadStats
    \/ \E d \in 1..2 : today + d <= MaxDay /\ NextDay(d)

\* topics beyond the cap; a new topic is the next number not used so far
NextTopics ==
    \E topic \in Topics :
        /\ lastStat.n < MaxAdds
        /\ topic = 1 \/ \E j \in 1..Len(stats.topicsLearned) :
                            stats.topicsLearned[j] >= topic - 1
        /\ AddTopic(topic)

\* answers over more days than dailyProgress keeps
NextProgress ==
    \/ lastStat.n < MaxAnswers /\ RecordAnswer(TRUE)
    \/ /\ lastStat.n < MaxAnswers
       /\ stats.totalAttempts - stats.totalCorrect < MaxWrong
       /\ RecordAnswer(FALSE)
    \/ today + 1 <= MaxProgressDay /\ NextDay(1)
\* ========================================================== useChatHistory
\* MAX_SESSIONS
MaxSessionsKept == 50
\* content.slice(0, 50)
TitleChars == 50
\* strings are sequences of characters
NewChatTitle == <<"N", "e", "w", " ", "C", "h", "a", "t">>
Ellipsis == <<".", ".", ".">>
ShortContent == <<"h", "i">>
LongContent == [i \in 1..(TitleChars + 1) |-> "a"]
Contents == {ShortContent, LongContent}
Roles == {"user", "assistant"}

\* a localStorage entry: absent, or the JSON of a session list
NoHistory == [present |-> FALSE, value |-> <<>>]
StoredHistory(list) == [present |-> TRUE, value |-> list]

\* Array.prototype.slice(0, n)
SliceFirst(seq, n) == IF Len(seq) <= n THEN seq ELSE SubSeq(seq, 1, n)
\* the filter that keeps every session
SessionsWithMessages_All(list) == list

\* sessions.filter(s => s.messages.length > 0)
SessionsWithMessages(list) == SelectSeq(list, LAMBDA x : Len(x.messages) > 0)
\* content.slice(0, 50) + (content.length > 50 ? "..." : "")
TitleOf(content) ==
    SliceFirst(content, TitleChars) \o (IF Len(content) > TitleChars THEN Ellipsis ELSE <<>>)

HistoryCall(op, id) == [op |-> op, id |-> id, n |-> lastCall.n + 1]
NoHistoryCall == [op |-> "", id |-> 0, n |-> 0]

\* setSessions(next) and the save effect on [sessions, isLoaded]
SetSessions(next) ==
    /\ sessions' = next
    /\ historyStorage' = [historyStorage EXCEPT
                             ![GetStorageKey] = StoredHistory(SessionsWithMessages(next))]

NewSession ==
    [id |-> clockMs, title |-> NewChatTitle, messages |-> <<>>,
     createdAt |-> clockMs, updatedAt |-> clockMs]

\* createSession that appends the new session at the old end
CreateSession_Appends ==
    /\ SetSessions(SliceFirst(Append(sessions, NewSession), MaxSessionsKept))
    /\ currentSessionId' = NewSession.id
    /\ lastCall' = HistoryCall("createSession", NewSession.id)
    /\ UNCHANGED <<chatVars, authVars, gateVars, statsVars, clockMs>>

CreateSession ==
    /\ SetSessions(SliceFirst(<<NewSession>> \o sessions, MaxSessionsKept))
    /\ currentSessionId' = NewSession.id
    /\ lastCall' = HistoryCall("createSession", NewSession.id)
    /\ UNCHANGED <<chatVars, authVars, gateVars, statsVars, clockMs>>

NewMessage(role, content) ==
    [id |-> clockMs, role |-> role, content |-> content, timestamp |-> clockMs]

\* the session addMessage's map gives for one session
WithMessage(session, sessionId, role, content) ==
    IF session.id = sessionId
    THEN [session EXCEPT
             !.title = IF Len(session.messages) = 0 /\ role = "user"
                       THEN TitleOf(content) ELSE @,
             !.messages = Append(@, NewMessage(role, content)),
             !.updatedAt = clockMs]
    ELSE session

AddMessage(sessionId, role, content) ==
    /\ SetSessions([i \in 1..Len(sessions) |->
                       WithMessage(sessions[i], sessionId, role, content)])
    /\ lastCall' = HistoryCall("addMessage", sessionId)
    /\ UNCHANGED <<chatVars, authVars, gateVars, statsVars, currentSessionId, clockMs>>

\* deleteSession that leaves the active pointer alone
DeleteSession_KeepsPointer(sessionId) ==
    /\ SetSessions(SelectSeq(sessions, LAMBDA x : x.id # sessionId))
    /\ currentSessionId' = currentSessionId
    /\ lastCall' = HistoryCall("deleteSession", sessionId)
    /\ UNCHANGED <<chatVars, authVars, gateVars, statsVars, clockMs>>

DeleteSession(sessionId) ==
    /\ SetSessions(SelectSeq(sessions, LAMBDA x : x.id # sessionId))
    /\ currentSessionId' = IF currentSessionId = sessionId THEN 0 ELSE currentSessionId
    /\ lastCall' = HistoryCall("deleteSession", sessionId)
    /\ UNCHANGED <<chatVars, authVars, gateVars, statsVars, clockMs>>

\* clearAllSessions; the save effect then stores the empty list
ClearAllSessions ==
    /\ SetSessions(<<>>)
    /\ currentSessionId' = 0
    /\ lastCall' = HistoryCall("clearAllSessions", 0)
    /\ UNCHANGED <<chatVars, authVars, gateVars, statsVars, clockMs>>

LoadSession(sessionId) ==
    /\ currentSessionId' = sessionId
    /\ lastCall' = HistoryCall("loadSession", sessionId)
    /\ UNCHANGED <<chatVars, authVars, gateVars, statsVars, sessions, historyStorage, clockMs>>

\* the page is loaded again: a new hook instance and its mount effect
LoadHistory ==
    /\ SetSessions(historyStorage[GetStorageKey].value)
    /\ currentSessionId' = 0
    /\ UNCHANGED <<chatVars, authVars, gateVars, statsVars, clockMs, lastCall>>

\* the sessions the hook returns
ListedSessions == SessionsWithMessages(sessions)
SessionIdsOf(list) == {list[i].id : i \in 1..Len(list)}

\* a millisecond passes
ClockTick ==
    /\ clockMs' = clockMs + 1
    /\ UNCHANGED <<chatVars, authVars, gateVars, statsVars, sessions, currentSessionId,
                   historyStorage, lastCall>>

HistoryIdle ==
    /\ sessions = <<>>
    /\ currentSessionId = 0
    /\ historyStorage = [k \in StorageKeys |-> NoHistory]
    /\ clockMs = 1
    /\ lastCall = NoHistoryCall

\* all operations of the hook, a few calls within a few milliseconds
NextHistory ==
    \/ lastCall.n < MaxHistoryCalls /\ CreateSession
    \/ lastCall.n < MaxHistoryCalls
          /\ \E id \in 1..MaxMs, role \in Roles, content \in Contents :
                AddMessage(id, role, content)
    \/ lastCall.n < MaxHistoryCalls /\ \E id \in 1..MaxMs : DeleteSession(id)
    \/ lastCall.n < MaxHistoryCalls /\ ClearAllSessions
    \/ lastCall.n < MaxHistoryCalls
          /\ \E id \in SessionIdsOf(ListedSessions) : LoadSession(id)
    \/ LoadHistory
    \/ clockMs < MaxMs /\ ClockTick

\* New Chat pressed once a millisecond, more often than the list is long
NextSessionCap ==
    \/ lastCall.n < MaxCreates /\ lastCall.id < clockMs /\ CreateSession
    \/ lastCall.id = clockMs /\ ClockTick

\* New Chat pressed again and again, a message sent in a session now and then
NextEviction ==
    \/ lastCall.n < MaxCreates /\ lastCall.id < clockMs /\ CreateSession
    \/ /\ lastCall.n < MaxCreates
       /\ Len(ListedSessions) < MaxWithMessages
       /\ currentSessionId \notin SessionIdsOf(ListedSessions) \cup {0}
       /\ AddMessage(currentSessionId, "user", ShortContent)
    \/ lastCall.op = "createSession" /\ lastCall.id = clockMs /\ ClockTick

\* ==================================================== tokens and the gate
\* AuthProvider.login: the browser stores the token a login answered with
StoreToken ==
    /\ lastLogin.resp.token # NoToken
    /\ authToken # lastLogin.resp.token
    /\ authToken' = lastLogin.resp.token
    /\ storedUser' = lastLogin.resp.user.id
    /\ UNCHANGED <<chatVars, authVars, statsVars, historyVars, logoutResp, authReq, courses, lastOp>>

\* AuthProvider.logout / auth-utils logout: localStorage only
ClientLogout ==
    /\ authToken # NoToken
    /\ authToken' = NoToken
    /\ storedUser' = 0
    /\ UNCHANGED <<chatVars, authVars, statsVars, historyVars, logoutResp, authReq, courses, lastOp>>

\* POST /api/auth/logout: answers success and touches nothing
LogoutOkResponse == AuthResp(200, "Logged out successfully", NoUser, NoToken)
ServerLogout ==
    /\ logoutResp' = LogoutOkResponse
    /\ UNCHANGED <<chatVars, authVars, statsVars, historyVars, authToken, storedUser, authReq, courses, lastOp>>

\* d days pass
Tick(d) ==
    /\ now + d <= MaxNow
    /\ now' = now + d
    /\ UNCHANGED <<chatVars, gateVars, statsVars, historyVars, envJwtSecret, users, userStats,
                   emailIndex, signups, lastLogin>>

\* an Authorization header is a sequence: the characters of the scheme, then
\* the token; <<>> is a missing header
BearerPrefix == <<"B", "e", "a", "r", "e", "r", " ">>
LowerPrefix == <<"b", "e", "a", "r", "e", "r", " ">>
DigestPrefix == <<"D", "i", "g", "e", "s", "t", " ">>
BearerNoSpace == <<"B", "e", "a", "r", "e", "r">>

\* String.prototype.startsWith
StartsWith(h, p) == Len(h) >= Len(p) /\ SubSeq(h, 1, Len(p)) = p

\* getTokenFromRequest without the startsWith("Bearer ") test
GetTokenFromRequest_AnyScheme(h) ==
    IF h = <<>> THEN <<>> ELSE SubSeq(h, 7 + 1, Len(h))

\* getTokenFromRequest: <<>> is null (and the empty string of "Bearer ")
GetTokenFromRequest(h) ==
    IF h = <<>> \/ ~StartsWith(h, BearerPrefix) THEN <<>>
    ELSE SubSeq(h, 7 + 1, Len(h))

\* the token a token string parses to; anything else is malformed
ParseJwt(str) == IF Len(str) = 1 THEN str[1] ELSE NoToken

GateResult(status, error, user) == [status |-> status, error |-> error, user |-> user]
NoGateResult == GateResult(0, "", NoUser)

\* requireAuth at time t
RequireAuthResult(h, t) ==
    IF GetTokenFromRequest(h) = <<>>
    THEN GateResult(401, "Unauthorized", NoUser)
    ELSE IF VerifyToken(ParseJwt(GetTokenFromRequest(h)), t) = NoUser
    THEN GateResult(401, "Invalid token", NoUser)
    ELSE GateResult(200, "", VerifyToken(ParseJwt(GetTokenFromRequest(h)), t))

\* tokens a request can carry: the stored one, the last one issued (replayed),
\* one signed with another secret, and one that is no JWT
ForgedToken == JwtSign([id |-> 2, name |-> "Root", email |-> "root@x.com"], "forged", now)
GarbageToken == [payload |-> NoUser, sig |-> "garbage", iat |-> 0, exp |-> 0]
KnownTokens == {authToken, lastLogin.resp.token, ForgedToken, GarbageToken} \ {NoToken}
Headers ==
    {<<>>, BearerPrefix, BearerNoSpace}
      \cup {BearerPrefix \o <<tok>> : tok \in KnownTokens}
      \cup {LowerPrefix \o <<tok>> : tok \in KnownTokens}
      \cup {DigestPrefix \o <<tok>> : tok \in KnownTokens}

NoAuthReq == [header |-> <<>>, result |-> NoGateResult]

RequireAuth(h) ==
    /\ authReq' = [header |-> h, result |-> RequireAuthResult(h, now)]
    /\ UNCHANGED <<chatVars, authVars, statsVars, historyVars, authToken, storedUser, logoutResp, courses, lastOp>>

\* the NextAuth session auth() finds for a request; NoSession is none
NoSession == [id |-> "", role |-> ""]
\* ObjectId.toString() of the user with number n
IdString(n) == CASE n = 1 -> "u1" [] n = 2 -> "u2" [] n = 3 -> "u3" [] OTHER -> ""

Op(route, method, h, s, arg, status, touched, returned) ==
    [route |-> route, method |-> method, header |-> h, session |-> s, arg |-> arg,
     status |-> status, touched |-> touched, returned |-> returned]
NoOp == Op("", "", <<>>, NoSession, 0, 0, FALSE, {})
NoCourses == [seq |-> 0, docs |-> {}]

GateIdle ==
    /\ authToken = NoToken
    /\ storedUser = 0
    /\ logoutResp = NoAuthResp
    /\ authReq = NoAuthReq
    /\ courses = NoCourses
    /\ lastOp = NoOp

\* a store with accounts: a user and an admin (the role is set in the store,
\* no route assigns it)
Registered ==
    << [id |-> 1, name |-> "Ana", email |-> "ana@x.com",
        password |-> BcryptHash("secret1", SaltRounds), role |-> "user"],
       [id |-> 2, name |-> "Root", email |-> "root@x.com",
        password |-> BcryptHash("secret1", SaltRounds), role |-> "admin"],
       [id |-> 3, name |-> "Bob", email |-> "bob@x.com",
        password |-> BcryptHash("secret1", SaltRounds), role |-> "user"] >>

RegisteredState(secret) ==
    /\ envJwtSecret = secret
    /\ users = Registered
    /\ userStats = <<1, 2, 3>>
    /\ emailIndex = TRUE
    /\ signups = [h \in Handlers |-> IdleSignup]
    /\ lastLogin = NoLogin
    /\ now = 0

\* the life of a token: login, logout, the clock, requireAuth
InitToken ==
    /\ ChatIdle(TRUE, TRUE) /\ GateIdle /\ StatsIdle /\ HistoryIdle
    /\ \E secret \in EnvSecrets : RegisteredState(secret)
NextToken ==
    \/ now <= MaxLoginDay /\ \E password \in Passwords : Login("ana@x.com", password)
    \/ StoreToken
    \/ ClientLogout
    \/ ServerLogout
    \/ Tick(1)
    \/ \E h \in Headers : RequireAuth(h)

\* the hooks of one page in use while the visitor logs in and out; LoadStats
\* and LoadHistory are the page loaded again
InitPartition ==
    /\ ChatIdle(TRUE, TRUE) /\ GateIdle /\ StatsIdle /\ HistoryIdle
    /\ RegisteredState("s3cret")
NextPartition ==
    \/ \E email \in Emails : Login(email, "secret1")
    \/ StoreToken
    \/ ClientLogout
    \/ lastStat.n < MaxPartitionCalls /\ IncrementQuestions
    \/ LoadStats
    \/ lastCall.n < MaxPartitionCalls /\ lastCall.id < clockMs /\ CreateSession
    \/ /\ lastCall.n < MaxPartitionCalls
       /\ currentSessionId # 0
       /\ AddMessage(currentSessionId, "user", ShortContent)
    \/ LoadHistory
    \/ lastCall.op = "createSession" /\ lastCall.id = clockMs /\ ClockTick

\* ------------------------------------------- courses and chat-history routes
\* an id parameter: Absent is a missing one (new ObjectId(null) makes a fresh
\* id that matches nothing), Malformed a string new ObjectId() throws on, a
\* positive number the ObjectId of that document
Absent == 0
Malformed == -1
IdArgs == {Absent, Malformed, 1, 2}
CourseNames == {"algebra", "biology"}

\* what a request to the routes carries: its Authorization header and the
\* session its cookie gives auth()
\* getAuthHeaders: the Authorization header the browser builds
GetAuthHeaders == IF authToken # NoToken THEN BearerPrefix \o <<authToken>> ELSE <<>>
\* the header of a request sent with getAuthHeaders() or without
HeaderOf(withAuth) == IF withAuth THEN GetAuthHeaders ELSE <<>>
Sessions == {NoSession}
              \cup {[id |-> IdString(Registered[i].id), role |-> Registered[i].role] :
                      i \in 1..Len(Registered)}

Ids(docs) == {d.id : d \in docs}
ChatIds(history) == {history[i].reqId : i \in 1..Len(history)}
ChatsOf(history, u) == {history[i].reqId : i \in {j \in 1..Len(history) : history[j].userId = u}}
WithoutChat(history, id) == SelectSeq(history, LAMBDA r : r.reqId # id)

\* GET /api/admin/courses
CoursesGET(h, s, db) ==
    /\ lastOp' = IF db THEN Op("admin/courses", "GET", h, s, Absent, 200, TRUE, Ids(courses.docs))
                 ELSE Op("admin/courses", "GET", h, s, Absent, 500, FALSE, {})
    /\ UNCHANGED <<chatVars, authVars, statsVars, historyVars, authToken, storedUser, logoutResp, authReq, courses>>

\* POST /api/admin/courses
CoursesPOST(h, s, name, db) ==
    /\ courses.seq < MaxCourses
    /\ IF db
       THEN /\ courses' = [seq |-> courses.seq + 1,
                           docs |-> courses.docs \cup {[id |-> courses.seq + 1, name |-> name]}]
            /\ lastOp' = Op("admin/courses", "POST", h, s, Absent, 201, TRUE, {courses.seq + 1})
       ELSE /\ courses' = courses
            /\ lastOp' = Op("admin/courses", "POST", h, s, Absent, 500, FALSE, {})
    /\ UNCHANGED <<chatVars, authVars, statsVars, historyVars, authToken, storedUser, logoutResp, authReq>>

\* PUT /api/admin/courses
CoursesPUT(h, s, id, name, db) ==
    /\ IF db /\ id # Malformed
       THEN /\ courses' = [courses EXCEPT !.docs =
                              {IF d.id = id THEN [d EXCEPT !.name = name] ELSE d : d \in @}]
            /\ lastOp' = Op("admin/courses", "PUT", h, s, id, 200, TRUE, {})
       ELSE /\ courses' = courses
            /\ lastOp' = Op("admin/courses", "PUT", h, s, id, 500, FALSE, {})
    /\ UNCHANGED <<chatVars, authVars, statsVars, historyVars, authToken, storedUser, logoutResp, authReq>>

\* DELETE /api/admin/courses
CoursesDELETE(h, s, id, db) ==
    /\ IF db /\ id # Malformed
       THEN /\ courses' = [courses EXCEPT !.docs = {d \in @ : d.id # id}]
            /\ lastOp' = Op("admin/courses", "DELETE", h, s, id, 200, TRUE, {})
       ELSE /\ courses' = courses
            /\ lastOp' = Op("admin/courses", "DELETE", h, s, id, 500, FALSE, {})
    /\ UNCHANGED <<chatVars, authVars, statsVars, historyVars, authToken, storedUser, logoutResp, authReq>>

\* GET /api/admin/chat-history?userId=
AdminChatHistoryGET(h, s, userId, db) ==
    /\ lastOp' = IF ~db \/ userId = Malformed
                 THEN Op("admin/chat-history", "GET", h, s, userId, 500, FALSE, {})
                 ELSE IF userId # Absent
                 THEN Op("admin/chat-history", "GET", h, s, userId, 200, TRUE,
                         ChatsOf(chatHistory, IdString(userId)))
                 ELSE Op("admin/chat-history", "GET", h, s, userId, 200, TRUE,
                         ChatIds(chatHistory))
    /\ UNCHANGED <<chatVars, authVars, statsVars, historyVars, authToken, storedUser, logoutResp, authReq, courses>>

\* DELETE /api/admin/chat-history?chatId=
AdminChatHistoryDELETE(h, s, chatId, db) ==
    /\ IF db /\ chatId # Malformed
       THEN /\ chatHistory' = WithoutChat(chatHistory, chatId)
            /\ lastOp' = Op("admin/chat-history", "DELETE", h, s, chatId, 200, TRUE, {})
       ELSE /\ chatHistory' = chatHistory
            /\ lastOp' = Op("admin/chat-history", "DELETE", h, s, chatId, 500, FALSE, {})
    /\ UNCHANGED <<authVars, statsVars, historyVars, authToken, storedUser, logoutResp, authReq, courses,
                   apiKey1, apiKey2, client1, client2, pc, req, attempts, lastError,
                   responseText, chatResp, served>>

\* GET /api/user/chat-history?userId=
UserChatHistoryGET(h, s, userId, db) ==
    /\ lastOp' = IF s = NoSession
                 THEN Op("user/chat-history", "GET", h, s, userId, 401, FALSE, {})
                 ELSE IF ~db \/ userId = Malformed
                 THEN Op("user/chat-history", "GET", h, s, userId, 500, FALSE, {})
                 ELSE Op("user/chat-history", "GET", h, s, userId, 200, TRUE,
                         ChatsOf(chatHistory,
                                 IF userId # Absent THEN IdString(userId) ELSE s.id))
    /\ UNCHANGED <<chatVars, authVars, statsVars, historyVars, authToken, storedUser, logoutResp, authReq, courses>>

\* the chat a findOne by id gives; {} is null
FindChat(history, id) == {history[i] : i \in {j \in 1..Len(history) : history[j].reqId = id}}

\* DELETE /api/user/chat-history?id=
UserChatHistoryDELETE(h, s, id, db) ==
    /\ IF s = NoSession
       THEN /\ chatHistory' = chatHistory
            /\ lastOp' = Op("user/chat-history", "DELETE", h, s, id, 401, FALSE, {})
       ELSE IF ~db \/ id = Malformed
       THEN /\ chatHistory' = chatHistory
            /\ lastOp' = Op("user/chat-history", "DELETE", h, s, id, 500, FALSE, {})
       ELSE IF FindChat(chatHistory, id) = {}
                 \/ \E c \in FindChat(chatHistory, id) : c.userId # s.id
       THEN /\ chatHistory' = chatHistory
            /\ lastOp' = Op("user/chat-history", "DELETE", h, s, id, 403, TRUE, {})
       ELSE /\ chatHistory' = WithoutChat(chatHistory, id)
            /\ lastOp' = Op("user/chat-history", "DELETE", h, s, id, 200, TRUE, {})
    /\ UNCHANGED <<authVars, statsVars, historyVars, authToken, storedUser, logoutResp, authReq, courses,
                   apiKey1, apiKey2, client1, client2, pc, req, attempts, lastError,
                   responseText, chatResp, served>>

\* a store that holds the chats of two served requests of user u1; the
\* handler and the module-level clients are as after a restart
SeedHistory ==
    << [reqId |-> 1, userId |-> "u1", userMessage |-> "hi",
        assistantResponse |-> TextOf(1, 1, "hi")],
       [reqId |-> 2, userId |-> "u1", userMessage |-> "hi",
        assistantResponse |-> TextOf(2, 2, "hi")] >>

InitGate ==
    /\ apiKey1 = TRUE /\ apiKey2 = TRUE
    /\ client1 = FALSE /\ client2 = FALSE
    /\ pc = "idle" /\ req = NoReq /\ attempts = <<>> /\ lastError = NoError
    /\ responseText = NoText /\ chatResp = NoResp /\ served = 0
    /\ chatHistory = SeedHistory
    /\ RegisteredState("s3cret")
    /\ GateIdle /\ StatsIdle /\ HistoryIdle

NextGate ==
    \/ Login("ana@x.com", "secret1")
    \/ StoreToken
    \/ \E withAuth \in BOOLEAN, s \in Sessions, db \in BOOLEAN : CoursesGET(HeaderOf(withAuth), s, db)
    \/ \E withAuth \in BOOLEAN, s \in Sessions, name \in CourseNames, db \in BOOLEAN :
          CoursesPOST(HeaderOf(withAuth), s, name, db)
    \/ \E withAuth \in BOOLEAN, s \in Sessions, id \in IdArgs, name \in CourseNames, db \in BOOLEAN :
          CoursesPUT(HeaderOf(withAuth), s, id, name, db)
    \/ \E withAuth \in BOOLEAN, s \in Sessions, id \in IdArgs, db \in BOOLEAN :
          CoursesDELETE(HeaderOf(withAuth), s, id, db)
    \/ \E withAuth \in BOOLEAN, s \in Sessions, id \in IdArgs, db \in BOOLEAN :
          AdminChatHistoryGET(HeaderOf(withAuth), s, id, db)
    \/ \E withAuth \in BOOLEAN, s \in Sessions, id \in IdArgs, db \in BOOLEAN :
          AdminChatHistoryDELETE(HeaderOf(withAuth), s, id, db)
    \/ \E withAuth \in BOOLEAN, s \in Sessions, id \in IdArgs, db \in BOOLEAN :
          UserChatHistoryGET(HeaderOf(withAuth), s, id, db)
    \/ \E withAuth \in BOOLEAN, s \in Sessions, id \in IdArgs, db \in BOOLEAN :
          UserChatHistoryDELETE(HeaderOf(withAuth), s, id, db)
vars == <<chatVars, authVars, gateVars, statsVars, historyVars>>

\* the chat route and the completion client, no account yet
Init == ChatInit /\ AuthIdle /\ GateIdle /\ StatsIdle /\ HistoryIdle
Next == ChatNext
Spec == Init /\ [][Next]_vars

\* the credential routes, the chat route idle
InitAuth == ChatIdle(TRUE, TRUE) /\ AuthInit /\ GateIdle /\ StatsIdle /\ HistoryIdle
NextAuth == AuthNext
SpecAuth == InitAuth /\ [][NextAuth]_vars

SpecToken == InitToken /\ [][NextToken]_vars

SpecGate == InitGate /\ [][NextGate]_vars

InitStats == ChatIdle(TRUE, TRUE) /\ AuthIdle /\ GateIdle /\ StatsIdle /\ HistoryIdle
SpecStats == InitStats /\ [][NextStats]_vars
SpecTopics == InitStats /\ [][NextTopics]_vars
SpecProgress == InitStats /\ [][NextProgress]_vars

SpecHistory == InitStats /\ [][NextHistory]_vars
SpecSessionCap == InitStats /\ [][NextSessionCap]_vars
SpecEviction == InitStats /\ [][NextEviction]_vars
SpecPartition == InitPartition /\ [][NextPartition]_vars

\* ---------------------------------------------------------------- views
\* the completion calls issued so far for the current request
Calls == {i \in 1..Len(attempts) : attempts[i].cred # 0}
CallsWith(c) == {i \in Calls : attempts[i].cred = c}
OkWith(c) == {i \in Calls : attempts[i].cred = c /\ attempts[i].outcome = "ok"}
FailedWith(c) == {i \in Calls : attempts[i].cred = c /\ attempts[i].outcome = "failed"}
PrimaryFailed == FailedWith(1) # {}
\* complete(prompt) has returned text
Returned == responseText # NoText
\* the causes an error message names
Named(msg) == {msg[i] : i \in 1..Len(msg)}
RecordsOf(id) == {i \in 1..Len(chatHistory) : chatHistory[i].reqId = id}

\* C1: whenever a call made with the primary credential succeeds, complete
\* returns exactly that call's text and no call is made with the secondary
\* credential, whether or not the secondary is configured.
C1_PrimarySuccessReturned ==
    \A i \in OkWith(1) :
        /\ responseText = TextOf(1, attempts[i].n, req.message)
        /\ CallsWith(2) = {}
        /\ pc = "done" => chatResp = Ok(TextOf(1, attempts[i].n, req.message))

C1_Witness ==
    /\ pc = "done" /\ apiKey1 /\ apiKey2
    /\ Len(attempts) = 1 /\ attempts[1].cred = 1 /\ attempts[1].outcome = "ok"
    /\ chatResp.status = 200 /\ chatResp.response.cred = 1

\* C2 as stated: complete returns the secondary's text if and only if the
\* primary call failed and a secondary credential is configured (and its call
\* succeeded).
C2_Original ==
    (Returned /\ responseText.cred = 2)
        <=> (PrimaryFailed /\ apiKey2 /\ OkWith(2) # {})

\* C2 amended: complete returns the secondary's text if and only if a secondary
\* credential is configured, the primary credential is either not configured
\* or its call failed, and a call with the secondary succeeded; after a failed
\* primary call with a secondary configured the next call uses the secondary,
\* and its text, not an error, is the response.
C2_SecondaryTextIff ==
    /\ (Returned /\ responseText.cred = 2)
          <=> (apiKey2 /\ (~apiKey1 \/ PrimaryFailed) /\ OkWith(2) # {})
    /\ (PrimaryFailed /\ apiKey2 /\ Len(attempts) >= 2) => attempts[2].cred = 2
    /\ (PrimaryFailed /\ apiKey2 /\ pc = "done" /\ OkWith(2) # {})
          => /\ chatResp.status = 200
             /\ chatResp.response = TextOf(2, 2, req.message)

C2_Witness ==
    /\ pc = "done" /\ apiKey1 /\ apiKey2
    /\ Len(attempts) = 2
    /\ attempts[1].cred = 1 /\ attempts[1].outcome = "failed"
    /\ attempts[2].cred = 2 /\ attempts[2].outcome = "ok"
    /\ chatResp.status = 200 /\ chatResp.response.cred = 2

\* C3: no hidden retries: at most one call per configured credential, none for
\* an unconfigured one, exactly one call in a single-credential configuration,
\* and the secondary's call only after the primary's call has failed.
C3_NoHiddenRetry ==
    /\ \A c \in {1, 2} : Cardinality(CallsWith(c)) <= 1
    /\ CallsWith(1) # {} => apiKey1
    /\ CallsWith(2) # {} => apiKey2
    /\ (apiKey1 # apiKey2 /\ pc \in {"persist", "done"} /\ Calls # {})
          => Cardinality(Calls) = 1
    /\ \A i \in CallsWith(2) :
          apiKey1 => \E j \in FailedWith(1) : j < i

\* C4: when the primary call fails and no secondary is configured or the
\* secondary call fails too, complete never returns text and fails with one
\* combined error naming both underlying failures.
C4_CombinedErrorNamesBoth ==
    (PrimaryFailed /\ (~apiKey2 \/ FailedWith(2) # {}))
        => /\ ~Returned
           /\ pc = "done" =>
                /\ chatResp.status = 500
                /\ \A i \in 1..Len(attempts) :
                      attempts[i].outcome = "failed"
                          => attempts[i].err \in Named(chatResp.error)

\* C5: with zero credentials configured the client fails at construction, at
\* process start: no request is taken up and none is answered.
C5_NoKeysNoTraffic ==
    (~apiKey1 /\ ~apiKey2) => (served = 0 /\ chatResp = NoResp)

\* C6: once complete has returned text, the response is 200 {response: text}
\* whatever the chat-history write does.
C6_SaveFailureInvisible ==
    (pc = "done" /\ Returned) => chatResp = Ok(responseText)

\* a write for a valid user id failed, and one for an invalid id was attempted
C6_Witness ==
    /\ pc = "done" /\ Returned
    /\ req.userId = "u1" /\ RecordsOf(req.id) = {}
    /\ chatResp.status = 200

\* C7: a record is inserted only after complete returned text for the same
\* request and only with a user id; a request ending in 400 or 500 inserts
\* nothing; a successful turn inserts at most one record.
C7_RecordOnlyAfterText ==
    /\ \A i \in 1..Len(chatHistory) :
          /\ chatHistory[i].userId # ""
          /\ chatHistory[i].assistantResponse # NoText
          /\ chatHistory[i].assistantResponse.prompt = chatHistory[i].userMessage
    /\ \A id \in 1..MaxRequests + 1 : Cardinality(RecordsOf(id)) <= 1
    /\ \A i \in RecordsOf(req.id) :
          /\ pc = "done" /\ chatResp.status = 200
          /\ chatHistory[i].assistantResponse = responseText
          /\ chatHistory[i].userMessage = req.message
    /\ pc # "done" => RecordsOf(req.id) = {}

C7_Witness ==
    /\ pc = "done" /\ chatResp.status = 500 /\ req.userId = "u1"
    /\ RecordsOf(req.id) = {}
    /\ Len(chatHistory) = 1 /\ chatHistory[1].reqId = 1

\* ------------------------------------------------------ credential views
LoginFails(e, p) == LoginPath(e, p) \in {"notfound", "mismatch"}
Accepted(h) == signups[h].pc = "done" /\ signups[h].resp.status = 200
GenericInvalid == AuthResp(401, "Invalid email or password", NoUser, NoToken)

C9_SignupThenLogin ==
    \A h \in Handlers :
        Accepted(h) =>
            LET r == signups[h]
                resp == LoginResponse(r.email, r.password, now) IN
            /\ resp.status = 200
            /\ VerifyToken(resp.token, now) =
                  [id |-> r.insertedId, name |-> r.name, email |-> r.email]
            /\ \A p \in Passwords \ {"", r.password} :
                  LoginResponse(r.email, p, now) = GenericInvalid

\* C10: a successful signup responds with the user's {id, name, email} and a
\* token that verifyToken accepts.
C10_SignupReturnsToken ==
    \A h \in Handlers :
        Accepted(h) =>
            /\ signups[h].resp.user = [id |-> signups[h].insertedId,
                                       name |-> signups[h].name,
                                       email |-> signups[h].email]
            /\ signups[h].resp.token # NoToken
            /\ VerifyToken(signups[h].resp.token, now) = signups[h].resp.user

\* C11: a signup whose email the existence check finds in the users collection
\* is answered with the duplicate-user error and changes neither the users nor
\* the userStats collection (no insert, no change of the existing record).
C11_DuplicateRejected ==
    [][\A h \in Handlers :
         (signups[h].pc = "find" /\ Matches(signups[h].email) # {}
             /\ signups'[h] # signups[h])
           => /\ signups'[h].pc = "done"
              /\ signups'[h].resp = AuthResp(400, "User already exists", NoUser, NoToken)
              /\ signups'[h].insertedId = 0
              /\ users' = users
              /\ userStats' = userStats]_vars

C11_Witness ==
    \E h \in Handlers :
        /\ signups[h].pc = "done"
        /\ signups[h].resp.error = "User already exists"
        /\ Cardinality(Matches(signups[h].email)) = 1
        /\ Len(userStats) = 1

\* C12: when a signup request has finished, either success was reported and
\* both the user record and its stats record exist, or failure was reported
\* and the request created no user record.
C12_SignupAtomic ==
    \A h \in Handlers :
        signups[h].pc = "done" =>
            \/ /\ signups[h].resp.status = 200
               /\ \E i \in 1..Len(users) : users[i].id = signups[h].insertedId
               /\ \E i \in 1..Len(userStats) : userStats[i] = signups[h].insertedId
            \/ /\ signups[h].resp.status # 200
               /\ signups[h].insertedId = 0

\* the header has the form "Bearer <token>" with a token after the space
HasBearerToken(h) ==
    /\ Len(h) > 7
    /\ \A i \in 1..7 : h[i] = BearerPrefix[i]

\* jwt.verify accepts the token the header carries
CarriedTokenVerifies(h) == h[8].sig = VerifyJwtSecret /\ now < h[8].exp

\* C13: requireAuth has exactly three outcomes: without a bearer token in the
\* Authorization header a 401 "Unauthorized"; with a token that verify rejects
\* a 401 "Invalid token"; otherwise the decoded identity. It never yields an
\* identity for a token that verify rejects.
C13_RequireAuthOutcomes ==
    /\ \A h \in Headers :
          RequireAuthResult(h, now) =
              IF ~HasBearerToken(h) THEN GateResult(401, "Unauthorized", NoUser)
              ELSE IF ~CarriedTokenVerifies(h) THEN GateResult(401, "Invalid token", NoUser)
              ELSE GateResult(200, "", h[8].payload)
    /\ authReq # NoAuthReq =>
          /\ authReq.result.error = "Unauthorized" <=> ~HasBearerToken(authReq.header)
          /\ authReq.result.status = 200 =>
                /\ authReq.result.user # NoUser
                /\ authReq.result.user = authReq.header[8].payload
                /\ authReq.header[8].sig = VerifyJwtSecret
          /\ authReq.result.status # 200 =>
                /\ authReq.result.status = 401
                /\ authReq.result.user = NoUser
                /\ authReq.result.error \in {"Unauthorized", "Invalid token"}

C13_Witness ==
    /\ authReq.result.status = 200
    /\ authReq.result.user.email = "ana@x.com"
    /\ authReq.header = BearerPrefix \o <<lastLogin.resp.token>>

\* C15: a token that login issued at time t is accepted by verify at every
\* time strictly before t + 30 days, whatever happened in between (server and
\* client logout included), and rejected at every time from t + 30 days on.
C15_TokenLifetime ==
    /\ lastLogin.path = "ok" =>
          /\ (VerifyToken(lastLogin.resp.token, now) = lastLogin.resp.user)
                <=> now < lastLogin.at + ExpiresInDays
          /\ (VerifyToken(lastLogin.resp.token, now) = NoUser)
                <=> now >= lastLogin.at + ExpiresInDays
          /\ (RequireAuthResult(BearerPrefix \o <<lastLogin.resp.token>>, now).status = 200)
                <=> now < lastLogin.at + ExpiresInDays
    /\ \A tok \in {authToken} \ {NoToken} :
          (VerifyToken(tok, now) # NoUser) <=> now < tok.iat + ExpiresInDays

C15_Witness ==
    /\ lastLogin.path = "ok"
    /\ logoutResp = LogoutOkResponse
    /\ authToken = NoToken
    /\ now = lastLogin.at + ExpiresInDays
    /\ authReq.header = BearerPrefix \o <<lastLogin.resp.token>>
    /\ authReq.result.error = "Invalid token"

\* C14: every protected route passes the authorization gate before touching
\* stored data: a request to the admin courses routes or the chat-history
\* routes that carries no valid bearer token causes no read, insert, update
\* or delete on the store.
C14_GateBeforeStore ==
    lastOp.touched => RequireAuthResult(lastOp.header, now).status = 200

\* the caller of the last request owns the chat r, or is an admin
CallerMayDelete(r) ==
    /\ lastOp'.session # NoSession
    /\ lastOp'.session.id = r.userId \/ lastOp'.session.role = "admin"

\* C16: chat-history records are append-only: no operation changes a field of
\* a stored record, and a record leaves the store only through a delete
\* request for it made by its owner or by an admin; a delete request from any
\* other caller leaves the record in place.
C16_AppendOnly ==
    [][\A i \in 1..Len(chatHistory) :
         \/ \E j \in 1..Len(chatHistory') : chatHistory'[j] = chatHistory[i]
         \/ /\ \A j \in 1..Len(chatHistory') : chatHistory'[j].reqId # chatHistory[i].reqId
            /\ lastOp'.method = "DELETE"
            /\ lastOp'.arg = chatHistory[i].reqId
            /\ CallerMayDelete(chatHistory[i])]_vars

\* the step is the n-th call of the hook, of operation op
Called(ops) == lastStat'.n = lastStat.n + 1 /\ lastStat'.op \in ops

\* C17: the streak transition applied on day T to stats with last active date
\* D leaves the stats unchanged when D = T, adds one to the streak and sets
\* the date to T when D = T-1, and otherwise sets the streak to 1 and the date
\* to T; so calls on a day that is already the last active date leave the
\* streak as it is: within one day it changes at most once.
C17_StreakTransition ==
    [][/\ stats.lastActiveDate = today => UpdateStreak(stats, today) = stats
       /\ stats.lastActiveDate = today - 1 =>
             /\ UpdateStreak(stats, today).streakDays = stats.streakDays + 1
             /\ UpdateStreak(stats, today).lastActiveDate = today
       /\ stats.lastActiveDate \notin {today, today - 1} =>
             /\ UpdateStreak(stats, today).streakDays = 1
             /\ UpdateStreak(stats, today).lastActiveDate = today
       /\ Called({"incrementQuestions", "recordAnswer"}) =>
             /\ stats'.lastActiveDate = today
             /\ stats.lastActiveDate = today => stats'.streakDays = stats.streakDays
             /\ stats.lastActiveDate = today - 1 => stats'.streakDays = stats.streakDays + 1
             /\ stats.lastActiveDate \notin {today, today - 1} => stats'.streakDays = 1
       /\ (Called({"incrementQuestions", "recordAnswer", "addTopic"})
             /\ stats.lastActiveDate = today) =>
             /\ stats'.streakDays = stats.streakDays
             /\ stats'.lastActiveDate = today]_vars

C17_Witness ==
    /\ today = 2
    /\ lastStat.n = 3
    /\ lastStat.op = "incrementQuestions"
    /\ stats.questionsAsked = 3
    /\ stats.streakDays = 2
    /\ stats.lastActiveDate = today

NoDuplicates(seq) == \A i, j \in 1..Len(seq) : seq[i] = seq[j] => i = j

\* C18: from the default stats, topicsLearned never holds a string twice nor
\* more than 20 entries; addTopic of a topic that is present changes nothing,
\* and addTopic of another topic puts it last, behind the topics that were
\* there, in their order, without the oldest one when there were 20.
C18_TopicsCapped ==
    [][/\ NoDuplicates(stats.topicsLearned)
       /\ Len(stats.topicsLearned) <= 20
       /\ Called({"addTopic"}) =>
             IF \E i \in 1..Len(stats.topicsLearned) :
                    stats.topicsLearned[i] = lastStat'.topic
             THEN stats'.topicsLearned = stats.topicsLearned
             ELSE IF Len(stats.topicsLearned) < 20
             THEN stats'.topicsLearned = Append(stats.topicsLearned, lastStat'.topic)
             ELSE stats'.topicsLearned = Append(Tail(stats.topicsLearned), lastStat'.topic)]_vars

C18_Witness ==
    /\ Len(stats.topicsLearned) = 20
    /\ stats.topicsLearned[1] = 3
    /\ stats.topicsLearned[20] = 1
    /\ lastStat.op = "addTopic"
    /\ lastStat.topic = 3

\* C19: from the default stats, by recordAnswer calls over days that do not
\* go back, dailyProgress has at most 7 entries, no date twice, and the dates
\* in increasing order; an answer on a date that is present replaces that
\* entry where it is, and one on a new date appends the entry and drops the
\* oldest one beyond 7.
C19_DailyProgressWindow ==
    [][/\ Len(stats.dailyProgress) <= 7
       /\ \A i, j \in 1..Len(stats.dailyProgress) :
             i < j => stats.dailyProgress[i].date < stats.dailyProgress[j].date
       /\ Called({"recordAnswer"}) =>
             /\ stats'.dailyProgress[Len(stats'.dailyProgress)].date = today
             /\ IF \E i \in 1..Len(stats.dailyProgress) : stats.dailyProgress[i].date = today
                THEN /\ Len(stats'.dailyProgress) = Len(stats.dailyProgress)
                     /\ \A i \in 1..Len(stats.dailyProgress) :
                           /\ stats'.dailyProgress[i].date = stats.dailyProgress[i].date
                           /\ stats.dailyProgress[i].date # today =>
                                 stats'.dailyProgress[i] = stats.dailyProgress[i]
                ELSE IF Len(stats.dailyProgress) < 7
                THEN SubSeq(stats'.dailyProgress, 1, Len(stats'.dailyProgress) - 1)
                        = stats.dailyProgress
                ELSE SubSeq(stats'.dailyProgress, 1, Len(stats'.dailyProgress) - 1)
                        = Tail(stats.dailyProgress)]_vars

C19_Witness ==
    /\ lastStat.n = 9
    /\ today = 8
    /\ Len(stats.dailyProgress) = 7
    /\ stats.dailyProgress[1].date = 2
    /\ stats.dailyProgress[7].date = 8
    /\ stats.dailyProgress[7].accuracy = 89

C23_OneUserPerEmail ==
    \A i, j \in 1..Len(users) : users[i].email = users[j].email => i = j

\* C24: every call of incrementQuestions, addTopic and recordAnswer runs the
\* streak transition first: right after such a call on day T the last active
\* date is T.
C24_StreakRunsFirst ==
    [][Called({"incrementQuestions", "addTopic", "recordAnswer"}) =>
          stats'.lastActiveDate = today]_vars

\* C30: GET on the user chat-history route returns only records that belong
\* to the authenticated caller, whatever the query parameters, and returns no
\* record to an unauthenticated request.
C30_OwnRecordsOnly ==
    (lastOp.route = "user/chat-history" /\ lastOp.method = "GET") =>
        \A id \in lastOp.returned :
            \E i \in 1..Len(SeedHistory) :
                /\ SeedHistory[i].reqId = id
                /\ lastOp.session # NoSession
                /\ SeedHistory[i].userId = lastOp.session.id

\* the step is a call of the chat-history hook, of operation op
HistoryCalled(ops) == lastCall'.n = lastCall.n + 1 /\ lastCall'.op \in ops

\* C25: addMessage(sessionId, message) appends the message to the target
\* session only and refreshes its updatedAt; every other session and the order
\* of the list stay as they are (nothing changes when no session has the id);
\* the first user message of a session without a title of its own sets the
\* title to the first 50 characters of its content, later messages leave it.
C25_AddMessageFrame ==
    [][HistoryCalled({"addMessage"}) =>
          /\ Len(sessions') = Len(sessions)
          /\ \A i \in 1..Len(sessions) :
                IF sessions'[i] # sessions[i]
                THEN /\ sessions[i].id = lastCall'.id
                     /\ \A j \in 1..Len(sessions) : j # i => sessions'[j] = sessions[j]
                     /\ Len(sessions'[i].messages) = Len(sessions[i].messages) + 1
                     /\ SubSeq(sessions'[i].messages, 1, Len(sessions[i].messages))
                           = sessions[i].messages
                     /\ sessions'[i].updatedAt = clockMs
                     /\ sessions'[i].id = sessions[i].id
                     /\ sessions'[i].createdAt = sessions[i].createdAt
                     /\ LET m == sessions'[i].messages[Len(sessions'[i].messages)]
                        IN  IF m.role = "user" /\ sessions[i].title = NewChatTitle
                            THEN sessions'[i].title = SliceFirst(m.content, 50)
                            ELSE sessions'[i].title = sessions[i].title
                ELSE sessions[i].id # lastCall'.id]_vars

\* C26: deleteSession(id) removes the sessions with that id and no other, and
\* clears the active-session pointer exactly when it named the deleted
\* session; the pointer is always empty or the id of a session in the list.
C26_DeleteSession ==
    [][/\ currentSessionId = 0 \/ \E i \in 1..Len(sessions) : sessions[i].id = currentSessionId
       /\ HistoryCalled({"deleteSession"}) =>
             /\ \A i \in 1..Len(sessions') : sessions'[i].id # lastCall'.id
             /\ \E f \in [1..Len(sessions') -> 1..Len(sessions)] :
                   /\ \A i \in 1..Len(sessions') : sessions'[i] = sessions[f[i]]
                   /\ \A i, j \in 1..Len(sessions') : i < j => f[i] < f[j]
                   /\ \A k \in 1..Len(sessions) :
                         sessions[k].id # lastCall'.id => \E i \in 1..Len(sessions') : f[i] = k
             /\ currentSessionId = lastCall'.id => currentSessionId' = 0
             /\ currentSessionId # lastCall'.id => currentSessionId' = currentSessionId]_vars

C26_Witness ==
    /\ lastCall = [op |-> "deleteSession", id |-> 2, n |-> 3]
    /\ currentSessionId = 0
    /\ Len(sessions) = 1
    /\ sessions[1].id = 1

\* C27: the session list the hook returns and every value written to a
\* storage partition hold no session with an empty message list, also while
\* empty sessions exist in memory.
C27_NoEmptyListed ==
    /\ \A i \in 1..Len(ListedSessions) : Len(ListedSessions[i].messages) > 0
    /\ \A k \in StorageKeys :
          \A i \in 1..Len(historyStorage[k].value) :
              Len(historyStorage[k].value[i].messages) > 0

C27_Witness ==
    /\ \E i \in 1..Len(sessions) : Len(sessions[i].messages) = 0
    /\ Len(ListedSessions) = 1
    /\ historyStorage[0].present
    /\ Len(historyStorage[0].value) = 1

\* C29: the ids of the sessions in the list are distinct, also when
\* createSession runs more than once within one millisecond.
C29_UniqueSessionIds ==
    \A i, j \in 1..Len(sessions) : sessions[i].id = sessions[j].id => i = j

Min(a, b) == IF a <= b THEN a ELSE b

\* C22: createSession puts the new, empty session first and keeps the others
\* in their order behind it; the list holds at most 50 sessions, newest first,
\* and the 51st createSession drops the session that was created first.
C22_CreateSessionCap ==
    [][HistoryCalled({"createSession"}) =>
          /\ sessions'[1].id = clockMs
          /\ sessions'[1].messages = <<>>
          /\ currentSessionId' = sessions'[1].id
          /\ Len(sessions') = Min(Len(sessions) + 1, 50)
          /\ Len(sessions') = Min(lastCall'.n, 50)
          /\ \A i \in 2..Len(sessions') : sessions'[i] = sessions[i - 1]
          /\ \A i, j \in 1..Len(sessions') :
                i < j => sessions'[i].createdAt > sessions'[j].createdAt
          /\ lastCall'.n = 51 =>
                /\ sessions[50].id = 1
                /\ SessionIdsOf(sessions') = 2..51]_vars

C22_Witness ==
    /\ lastCall.op = "createSession"
    /\ lastCall.n = 51
    /\ Len(sessions) = 50
    /\ sessions[1].id = 51
    /\ sessions[50].id = 2

\* C28: a session with messages leaves a partition of the persisted history
\* only when deleteSession is called with its id, when clearAllSessions is
\* called, or when createSession runs while 50 sessions with messages are
\* stored; creating sessions that stay empty never removes it.
C28_StoredSessionsStay ==
    [][\A k \in StorageKeys :
          \A i \in 1..Len(historyStorage[k].value) :
              (\A j \in 1..Len(historyStorage'[k].value) :
                   historyStorage'[k].value[j].id # historyStorage[k].value[i].id)
              => \/ /\ HistoryCalled({"deleteSession"})
                    /\ lastCall'.id = historyStorage[k].value[i].id
                 \/ HistoryCalled({"clearAllSessions"})
                 \/ /\ HistoryCalled({"createSession"})
                    /\ Len(historyStorage[k].value) >= 50]_vars

\* what a hook holds in memory when it mirrors a stored partition
StatsOf(stored) == IF stored = NoStored THEN DefaultStats ELSE stored

\* C21: every save of learning stats and of chat sessions goes to the
\* partition of the identity stored at that moment and to no other, and what
\* the call builds on is the data of that partition: nothing accumulated under
\* another identity (or as a guest) is written into it, also when the stored
\* identity changes while the hooks are in use.
C21_PartitionsIsolated ==
    [][/\ (lastStat'.n = lastStat.n + 1) =>
             /\ \A k \in StorageKeys \ {GetStorageKey} : statsStorage'[k] = statsStorage[k]
             /\ stats = StatsOf(statsStorage[GetStorageKey])
       /\ (lastCall'.n = lastCall.n + 1) =>
             /\ \A k \in StorageKeys \ {GetStorageKey} : historyStorage'[k] = historyStorage[k]
             /\ \A i \in 1..Len(sessions) :
                   Len(sessions[i].messages) > 0 =>
                       \E j \in 1..Len(historyStorage[GetStorageKey].value) :
                           historyStorage[GetStorageKey].value[j] = sessions[i]]_vars

====
